---------------------------- MODULE Spec2Model ----------------------------
(***************************************************************************)
(* A model of logf (src/log.go): the logfmt line encoder, the level        *)
(* filter, the buffer pool discipline and the synchronized writer.         *)
(*                                                                         *)
(* Text is a sequence of bytes (integers 0..255), as a Go string is.       *)
(***************************************************************************)
EXTENDS Integers, Sequences, FiniteSets, TLC

VARIABLES
    s, buf, escDone,                      \* one call of escapeAndWriteString
    l, d, pool, sink, op, trace, line, toks, exited,   \* a logger in use
    lg, pc, mutex, inWrite, written       \* concurrent emissions

escVars  == <<s, buf, escDone>>
logVars  == <<l, d, pool, sink, op, trace, line, toks, exited>>
concVars == <<lg, pc, mutex, inWrite, written>>
vars     == <<s, buf, escDone, l, d, pool, sink, op, trace, line, toks, exited,
              lg, pc, mutex, inWrite, written>>

---------------------------------------------------------------------------
(* Bounds of the model *)

\* longest text handed to escapeAndWriteString in SpecEsc
MaxLen == 3

---------------------------------------------------------------------------
(* Bytes and runes *)

RuneSelf  == 128      \* utf8.RuneSelf
RuneError == 65533    \* utf8.RuneError, U+FFFD

\* "0123456789abcdef"
hex == <<48, 49, 50, 51, 52, 53, 54, 55, 56, 57, 97, 98, 99, 100, 101, 102>>

IsCont(b) == 128 <= b /\ b <= 191

\* utf8.DecodeRuneInString(s[i:]) for i <= Len(str): the rune and its width.
\* An undecodable byte is (RuneError, 1); an encoded U+FFFD is (RuneError, 3).
DecodeRuneInString(str, i) ==
    LET n  == Len(str)
        b0 == str[i]
        bad == [c |-> RuneError, size |-> 1]
    IN  IF b0 < RuneSelf THEN [c |-> b0, size |-> 1]
        ELSE IF 194 <= b0 /\ b0 <= 223 THEN
            IF i + 1 <= n /\ IsCont(str[i + 1])
            THEN [c |-> (b0 % 32) * 64 + (str[i + 1] % 64), size |-> 2]
            ELSE bad
        ELSE IF 224 <= b0 /\ b0 <= 239 THEN
            IF /\ i + 2 <= n
               /\ IsCont(str[i + 1]) /\ IsCont(str[i + 2])
               /\ (b0 = 224 => str[i + 1] >= 160)
               /\ (b0 = 237 => str[i + 1] <= 159)
            THEN [c |-> (b0 % 16) * 4096 + (str[i + 1] % 64) * 64 + (str[i + 2] % 64),
                  size |-> 3]
            ELSE bad
        ELSE IF 240 <= b0 /\ b0 <= 244 THEN
            IF /\ i + 3 <= n
               /\ IsCont(str[i + 1]) /\ IsCont(str[i + 2]) /\ IsCont(str[i + 3])
               /\ (b0 = 240 => str[i + 1] >= 144)
               /\ (b0 = 244 => str[i + 1] <= 143)
            THEN [c |-> (b0 % 8) * 262144 + (str[i + 1] % 64) * 4096
                        + (str[i + 2] % 64) * 64 + (str[i + 3] % 64),
                  size |-> 4]
            ELSE bad
        ELSE bad

\* checkEscapingRune: '=', ' ', '"' or utf8.RuneError
checkEscapingRune(r) == r = 61 \/ r = 32 \/ r = 34 \/ r = RuneError

\* strings.IndexFunc(str, checkEscapingRune), scanning from byte i (1-based);
\* 0 stands for Go's -1.
RECURSIVE IndexFuncFrom(_, _)
IndexFuncFrom(str, i) ==
    IF i > Len(str) THEN 0
    ELSE LET r == DecodeRuneInString(str, i)
         IN  IF checkEscapingRune(r.c) THEN i
             ELSE IndexFuncFrom(str, i + r.size)

\* The loop of writeQuotedString: i is the scan position and start the first
\* byte of the pending unescaped run (both 1-based).
RECURSIVE QuoteLoop(_, _, _, _)
QuoteLoop(b, str, i, start) ==
    IF i > Len(str) THEN
        IF start <= Len(str) THEN b \o SubSeq(str, start, Len(str)) ELSE b
    ELSE
        LET c == str[i]
            flushed == IF start < i THEN b \o SubSeq(str, start, i - 1) ELSE b
        IN  IF c < RuneSelf THEN
                IF 32 <= c /\ c # 92 /\ c # 34 THEN QuoteLoop(b, str, i + 1, start)
                ELSE
                    LET esc == IF c = 92 \/ c = 34 THEN <<92, c>>
                               ELSE IF c = 10 THEN <<92, 110>>
                               ELSE IF c = 13 THEN <<92, 114>>
                               ELSE IF c = 9 THEN <<92, 116>>
                               ELSE <<92, 117, 48, 48,
                                      hex[(c \div 16) + 1], hex[(c % 16) + 1]>>
                    IN  QuoteLoop(flushed \o esc, str, i + 1, i + 1)
            ELSE
                LET r == DecodeRuneInString(str, i)
                IN  IF r.c = RuneError
                    THEN QuoteLoop(flushed \o <<92, 117, 102, 102, 102, 100>>,
                                   str, i + r.size, i + r.size)
                    ELSE QuoteLoop(b, str, i + r.size, start)

\* writeQuotedString(buf, s)
writeQuotedString(b, str) == b \o <<34>> \o QuoteLoop(<<>>, str, 1, 1) \o <<34>>

\* escapeAndWriteString(buf, s)
escapeAndWriteString(b, str) ==
    b \o (IF IndexFuncFrom(str, 1) # 0 THEN writeQuotedString(<<>>, str) ELSE str)

---------------------------------------------------------------------------
(* Levels, colors and the fixed keys *)

DebugLevel == 0
InfoLevel  == 1
WarnLevel  == 2
ErrorLevel == 3
FatalLevel == 4
Levels == DebugLevel .. FatalLevel

tsKey    == <<116, 105, 109, 101, 115, 116, 97, 109, 112, 61>>  \* "timestamp="
scopeKey == <<115, 99>>                                         \* "sc"
levelKey   == <<108, 101, 118, 101, 108>>                       \* "level"
messageKey == <<109, 101, 115, 115, 97, 103, 101>>              \* "message"
callerKey  == <<99, 97, 108, 108, 101, 114>>                    \* "caller"
general    == <<103, 101, 110, 101, 114, 97, 108>>              \* "general"

\* The clock of the model has minutes and seconds only, so the default layout
\* "2006-01-02T15:04:05.999Z07:00" is cut to its "04:05".
defaultTSFormat == <<48, 52, 58, 48, 53>>

reset  == <<27, 91, 48, 109>>        \* "\033[0m"
purple == <<27, 91, 51, 53, 109>>    \* "\033[35m"
red    == <<27, 91, 51, 49, 109>>    \* "\033[31m"
yellow == <<27, 91, 51, 51, 109>>    \* "\033[33m"
cyan   == <<27, 91, 51, 54, 109>>    \* "\033[36m"

colorLvlMap(lvl) ==
    CASE lvl = DebugLevel -> purple
      [] lvl = InfoLevel  -> cyan
      [] lvl = WarnLevel  -> yellow
      [] lvl = ErrorLevel -> red
      [] lvl = FatalLevel -> red

\* Level.String()
LevelString(lvl) ==
    CASE lvl = DebugLevel -> <<100, 101, 98, 117, 103>>
      [] lvl = InfoLevel  -> <<105, 110, 102, 111>>
      [] lvl = WarnLevel  -> <<119, 97, 114, 110>>
      [] lvl = ErrorLevel -> <<101, 114, 114, 111, 114>>
      [] lvl = FatalLevel -> <<102, 97, 116, 97, 108>>
      [] OTHER -> <<105, 110, 118, 97, 108, 105, 100, 32, 108, 118, 108>>

\* getColoredKey(k, lvl)
getColoredKey(k, lvl) == colorLvlMap(lvl) \o k \o reset

---------------------------------------------------------------------------
(* The byte buffer and its pool *)

\* strconv.Itoa / byteBuffer.AppendInt: minimal decimal digits
RECURSIVE Digits(_)
Digits(n) == IF n < 10 THEN <<48 + n>> ELSE Digits(n \div 10) \o <<48 + (n % 10)>>

AppendInt(b, n) == b \o (IF n < 0 THEN <<45>> \o Digits(-n) ELSE Digits(n))

\* byteBuffer.AppendFloat: a float of the model is whole + frac/100 with
\* 0 <= frac < 100, printed with the fewest digits that give it back.
AppendFloat(b, whole, frac) ==
    AppendInt(b, whole)
    \o (IF frac = 0 THEN <<>>
        ELSE IF frac % 10 = 0 THEN <<46>> \o Digits(frac \div 10)
        ELSE <<46, 48 + (frac \div 10), 48 + (frac % 10)>>)

TwoDigits(n) == <<48 + ((n \div 10) % 10), 48 + (n % 10)>>

\* byteBuffer.AppendTime(t, layout): time.Time.AppendFormat for a clock t in
\* seconds. "04" is the minute, "05" the second; any other byte of the layout
\* is copied as it is.
RECURSIVE FormatFrom(_, _, _, _)
FormatFrom(b, t, layout, i) ==
    IF i > Len(layout) THEN b
    ELSE IF i < Len(layout) /\ layout[i] = 48 /\ layout[i + 1] = 52
         THEN FormatFrom(b \o TwoDigits((t \div 60) % 60), t, layout, i + 2)
    ELSE IF i < Len(layout) /\ layout[i] = 48 /\ layout[i + 1] = 53
         THEN FormatFrom(b \o TwoDigits(t % 60), t, layout, i + 2)
    ELSE FormatFrom(b \o <<layout[i]>>, t, layout, i + 1)

AppendTime(b, t, layout) == b \o FormatFrom(<<>>, t, layout, 1)

\* byteBufferPool.Get: a pooled buffer when there is one, else a new one.
\* The pool is the sequence of the buffers it holds, each with its bytes.
PoolGet(pl) == IF pl = <<>> THEN [b |-> <<>>, pool |-> pl]
               ELSE [b |-> Head(pl), pool |-> Tail(pl)]

\* byteBufferPool.Put
PoolPut(pl, b) == <<b>> \o pl

\* byteBuffer.Reset: length zero, capacity kept
BufReset(b) == <<>>

---------------------------------------------------------------------------
(* Values of a field: the kinds writeToBuf tells apart *)

StrVal(t)      == [kind |-> "string",   text |-> t,    n |-> 0, frac |-> 0]
IntVal(n)      == [kind |-> "int",      text |-> <<>>, n |-> n, frac |-> 0]
FloatVal(w, f) == [kind |-> "float64",  text |-> <<>>, n |-> w, frac |-> f]
Float32Val(w, f) == [kind |-> "float32", text |-> <<>>, n |-> w, frac |-> f]
\* a fmt.Stringer whose String() is t
StringerVal(t) == [kind |-> "stringer", text |-> t,    n |-> 0, frac |-> 0]
\* any other value, whose fmt.Sprintf("%v") is t
OtherVal(t)    == [kind |-> "other",    text |-> t,    n |-> 0, frac |-> 0]

---------------------------------------------------------------------------
(* The line assembler *)

\* the key of writeStringToBuf and writeToBuf, colored or not
writeKey(b, key, lvl, color) ==
    escapeAndWriteString(b, IF color THEN getColoredKey(key, lvl) ELSE key)

\* the type switch of writeToBuf
writeVal(b, v) ==
    b \o (CASE v.kind = "string"   -> escapeAndWriteString(<<>>, v.text)
            [] v.kind = "int"      -> AppendInt(<<>>, v.n)
            [] v.kind = "float32"  -> AppendFloat(<<>>, v.n, v.frac)
            [] v.kind = "float64"  -> AppendFloat(<<>>, v.n, v.frac)
            [] v.kind = "stringer" -> escapeAndWriteString(<<>>, v.text)
            [] OTHER               -> escapeAndWriteString(<<>>, v.text))

\* writeTimeToBuf(buf, format, lvl, color), the clock reading t
writeTimeToBuf(b, format, lvl, color, t) ==
    AppendTime(b \o (IF color THEN getColoredKey(tsKey, lvl) ELSE tsKey), t, format)
    \o <<32>>

\* writeStringToBuf(buf, key, val, lvl, color, space)
writeStringToBuf(b, key, val, lvl, color, space) ==
    escapeAndWriteString(writeKey(b, key, lvl, color) \o <<61>>, val)
    \o (IF space THEN <<32>> ELSE <<>>)

\* writeToBuf(buf, key, val, lvl, color, space)
writeToBuf(b, key, val, lvl, color, space) ==
    writeVal(writeKey(b, key, lvl, color) \o <<61>>, val)
    \o (IF space THEN <<32>> ELSE <<>>)

\* what runtime.Caller found: no frame, or a file and a line
NoFrame == [ok |-> FALSE, file |-> <<>>, line |-> 0]

\* caller(depth)
caller(frame) ==
    LET file == IF frame.ok THEN frame.file ELSE <<63, 63, 63>>
        ln   == IF frame.ok THEN frame.line ELSE 0
    IN  file \o <<58>> \o Digits(ln)

\* the loop over the field map, in the order the map iteration gave
RECURSIVE WriteFields(_, _, _, _, _, _)
WriteFields(b, fields, order, count, lvl, color) ==
    b \o (IF count >= Len(order) THEN <<>>
          ELSE WriteFields(writeToBuf(<<>>, order[count + 1], fields[order[count + 1]],
                                      lvl, color, count # Len(order) - 1),
                           fields, order, count + 1, lvl, color))

\* the iteration orders a Go map may give
Orders(fields) ==
    LET n == Cardinality(DOMAIN fields)
    IN  {o \in [1 .. n -> DOMAIN fields] : \A i, j \in 1 .. n : o[i] = o[j] => i = j}

\* a filter that also drops the calls at the threshold itself
DiscardAtThreshold(lvl, level) == lvl <= level

\* the level filter of handleLog
Discard(lvl, level) == lvl < level

\* the bytes of the line: the fixed keys, the caller, the fields, the newline
AssembleLine(b, r, msg, lvl, fields, order, env) ==
    LET b1 == writeTimeToBuf(b, r.tsFormat, lvl, r.enableColor, env.t)
        b2 == writeToBuf(b1, levelKey, StringerVal(LevelString(lvl)), lvl,
                         r.enableColor, TRUE)
        b3 == writeStringToBuf(b2, messageKey, msg, lvl, r.enableColor, TRUE)
        b4 == writeStringToBuf(b3, scopeKey, r.scope, lvl, r.enableColor, TRUE)
        b5 == b4 \o (IF r.enableCaller
                     THEN writeToBuf(<<>>, callerKey, StrVal(caller(env.frame)),
                                     lvl, r.enableColor, TRUE)
                     ELSE <<>>)
        b6 == WriteFields(b5, fields, order, 0, lvl, r.enableColor)
    IN  b6 \o <<10>>

\* the key token and the value token of each field of the line, as written
LineTokens(r, msg, lvl, fields, order, env) ==
    LET tok(k, v) == [key |-> writeKey(<<>>, k, lvl, r.enableColor),
                      val |-> writeVal(<<>>, v)]
    IN  << [key |-> IF r.enableColor THEN getColoredKey(tsKey, lvl) ELSE tsKey,
            val |-> AppendTime(<<>>, env.t, r.tsFormat)],
           tok(levelKey, StringerVal(LevelString(lvl))),
           tok(messageKey, StrVal(msg)),
           tok(scopeKey, StrVal(r.scope)) >>
        \o (IF r.enableCaller
            THEN <<tok(callerKey, StrVal(caller(env.frame)))>> ELSE <<>>)
        \o [i \in 1 .. Len(order) |-> tok(order[i], fields[order[i]])]

\* an end of handleLog that returns as soon as the write has failed
FlushReturnOnError(b, out, werr, pl, sk) ==
    IF werr THEN [trace |-> <<"write", "printf">>, sink |-> sk, pool |-> pl]
    ELSE [trace |-> <<"write", "reset", "put">>,
          sink  |-> [w |-> out, bytes |-> b],
          pool  |-> PoolPut(pl, BufReset(b))]

\* the end of handleLog: the write, the report of a failed write, the reset
\* and the return of the buffer
FlushAndRelease(b, out, werr, pl, sk) ==
    [trace |-> <<"write">> \o (IF werr THEN <<"printf">> ELSE <<>>)
               \o <<"reset", "put">>,
     sink  |-> IF werr THEN sk ELSE [w |-> out, bytes |-> b],
     pool  |-> PoolPut(pl, BufReset(b))]

\* handleLog(msg, lvl, fields) on logger r, with the pool pl; sk is the last
\* write a destination accepted (which destination, which bytes); env is
\* what the environment gives the call: the clock, the caller's frame,
\* whether the destination's Write fails.
handleLog(r, msg, lvl, fields, order, env, pl, sk) ==
    IF Discard(lvl, r.level)
    THEN [trace |-> <<>>, line |-> <<>>, toks |-> <<>>, pool |-> pl, sink |-> sk]
    ELSE LET got == PoolGet(pl)
             b   == AssembleLine(got.b, r, msg, lvl, fields, order, env)
         IN  LET fin == FlushAndRelease(b, r.out, env.werr, got.pool, sk)
             IN  [trace |-> <<"get", "now">> \o fin.trace,
                  line  |-> b,
                  toks  |-> LineTokens(r, msg, lvl, fields, order, env),
                  pool  |-> fin.pool,
                  sink  |-> fin.sink]

---------------------------------------------------------------------------
(* The logger and its configuration *)

\* New(out); "nil" is the nil io.Writer
New(out) ==
    [out                  |-> IF out = "nil" THEN "stderr" ELSE out,
     level                |-> InfoLevel,
     tsFormat             |-> defaultTSFormat,
     enableColor          |-> FALSE,
     enableCaller         |-> FALSE,
     callerSkipFrameCount |-> 0,
     scope                |-> general]

\* The setters with a value receiver return the changed copy.
SetLevel(r, lvl)              == [r EXCEPT !.level = lvl]
SetWriter(r, w)               == [r EXCEPT !.out = w]
SetTimestampFormat(r, f)      == [r EXCEPT !.tsFormat = f]
SetColorOutput(r, color)      == [r EXCEPT !.enableColor = color]
SetCallerFrame(r, cl, depth)  == [r EXCEPT !.enableCaller = cl,
                                           !.callerSkipFrameCount = depth]
\* SetScope has a pointer receiver: this is the new value of *l.
SetScope(r, scope)            == [r EXCEPT !.scope = scope]

---------------------------------------------------------------------------
(* Inputs *)

\* the clock readings of Spec are 0 .. MaxClock
MaxClock == 1

Dests == {"stderr", "file"}

\* "04 05": a layout with a space in it
spacedTSFormat == <<48, 52, 32, 48, 53>>
TSFormats == {defaultTSFormat, spacedTSFormat}

Scopes == {general, <<115, 118, 99>>}                \* "general", "svc"

\* "a b", "a\nb"
Msgs == {<<97, 32, 98>>, <<97, 10, 98>>}

\* the map of a call without fields (nil)
NoFields == <<>>

\* {"k": "v"}, {"a b": -4, "r": 3.14}, {"e": stringer "x y", "o": other "p=q"}
FieldMaps ==
    { (<<107>> :> StrVal(<<118>>)),
      (<<97, 32, 98>> :> IntVal(-4)) @@ (<<114>> :> FloatVal(3, 14)),
      (<<101>> :> StringerVal(<<120, 32, 121>>))
          @@ (<<111>> :> OtherVal(<<112, 61, 113>>)) }

\* "m.go", line 7
Frames == {NoFrame, [ok |-> TRUE, file |-> <<109, 46, 103, 111>>, line |-> 7]}

\* what a call that is discarded reads of its environment: nothing
Env0 == [t |-> 0, frame |-> NoFrame, werr |-> FALSE]

FlowEnvs == [t : 0 .. MaxClock, frame : {NoFrame}, werr : BOOLEAN]
LineEnvs == [t : {61}, frame : Frames, werr : {FALSE}]
CfgEnvs  == {Env0}

NoOp == [name |-> "none", who |-> "l", cfg |-> New("nil"), lvl |-> InfoLevel,
         msg |-> <<>>, fields |-> NoFields, order |-> <<>>, env |-> Env0]

NoSink == [w |-> "none", bytes |-> <<>>]

---------------------------------------------------------------------------
(* The operations on a logger.  l is the logger New returned; d is the       *)
(* logger the last setter returned.  who names the receiver of a call.       *)

Recv(who) == IF who = "l" THEN l ELSE d

Running == exited = <<>>

CallSetLevel(who, lvls) ==
    /\ Running
    /\ \E lvl \in lvls : d' = SetLevel(Recv(who), lvl)
    /\ UNCHANGED <<l, pool, sink, op, trace, line, toks, exited>>
    /\ UNCHANGED <<escVars, concVars>>

CallSetWriter(who) ==
    /\ Running
    /\ \E w \in Dests : d' = SetWriter(Recv(who), w)
    /\ UNCHANGED <<l, pool, sink, op, trace, line, toks, exited>>
    /\ UNCHANGED <<escVars, concVars>>

CallSetTimestampFormat(who) ==
    /\ Running
    /\ \E f \in TSFormats : d' = SetTimestampFormat(Recv(who), f)
    /\ UNCHANGED <<l, pool, sink, op, trace, line, toks, exited>>
    /\ UNCHANGED <<escVars, concVars>>

CallSetColorOutput(who) ==
    /\ Running
    /\ \E color \in BOOLEAN : d' = SetColorOutput(Recv(who), color)
    /\ UNCHANGED <<l, pool, sink, op, trace, line, toks, exited>>
    /\ UNCHANGED <<escVars, concVars>>

CallSetCallerFrame(who) ==
    /\ Running
    /\ \E cl \in BOOLEAN : d' = SetCallerFrame(Recv(who), cl, 0)
    /\ UNCHANGED <<l, pool, sink, op, trace, line, toks, exited>>
    /\ UNCHANGED <<escVars, concVars>>

\* l.SetScope(scope) writes through the pointer to its receiver.
CallSetScope(who) ==
    /\ Running
    /\ \E scope \in Scopes :
         IF who = "l" THEN l' = SetScope(l, scope) /\ d' = d
                      ELSE d' = SetScope(d, scope) /\ l' = l
    /\ UNCHANGED <<pool, sink, op, trace, line, toks, exited>>
    /\ UNCHANGED <<escVars, concVars>>

\* What a call reads of its environment: nothing when it is discarded, and
\* a frame only when caller capture is on.
ReadEnv(who, lvl, envs) ==
    IF Discard(lvl, Recv(who).level) THEN {Env0}
    ELSE {e \in envs : Recv(who).enableCaller \/ e.frame = NoFrame}

\* One call of handleLog through receiver who, and what it leaves behind.
Emit(name, who, lvl, msg, fields, order, env, after, status) ==
    /\ \E res \in {handleLog(Recv(who), msg, lvl, fields, order, env, pool, sink)} :
         /\ op' = [name |-> name, who |-> who, cfg |-> Recv(who), lvl |-> lvl,
                   msg |-> msg, fields |-> fields, order |-> order, env |-> env]
         /\ trace' = res.trace \o after
         /\ line' = res.line
         /\ toks' = res.toks
         /\ pool' = res.pool
         /\ sink' = res.sink
    /\ exited' = status
    /\ UNCHANGED <<l, d>>
    /\ UNCHANGED <<escVars, concVars>>

\* Logger.Debug, Info, Warn, Error
LogCall(who, lvls, msgs, envs) ==
    /\ Running
    /\ \E lvl \in lvls, msg \in msgs :
       \E env \in ReadEnv(who, lvl, envs) :
         Emit("Log", who, lvl, msg, NoFields, <<>>, env, <<>>, <<>>)

\* a Fatal that leaves the process before the line is written
FatalExitFirst(who, msgs, envs) ==
    /\ Running
    /\ \E msg \in msgs :
         op' = [name |-> "Fatal", who |-> who, cfg |-> Recv(who), lvl |-> FatalLevel,
                msg |-> msg, fields |-> NoFields, order |-> <<>>, env |-> Env0]
    /\ trace' = <<"exit">>
    /\ line' = <<>>
    /\ toks' = <<>>
    /\ exited' = <<1>>
    /\ UNCHANGED <<l, d, pool, sink>>
    /\ UNCHANGED <<escVars, concVars>>

\* Logger.Fatal: handleLog, then os.Exit(1)
Fatal(who, msgs, envs) ==
    /\ Running
    /\ \E msg \in msgs, env \in ReadEnv(who, FatalLevel, envs) :
         Emit("Fatal", who, FatalLevel, msg, NoFields, <<>>, env, <<"exit">>, <<1>>)

\* FieldLogger.Debug, Info, Warn, Error: handleLog with the fields of WithFields
FieldLog(who, lvls, msgs, envs) ==
    /\ Running
    /\ \E lvl \in lvls, msg \in msgs, fields \in FieldMaps :
       \E env \in ReadEnv(who, lvl, envs), order \in Orders(fields) :
            Emit("FieldLog", who, lvl, msg, fields, order, env, <<>>, <<>>)

InitLog ==
    /\ l = New("nil")
    /\ d = New("nil")
    /\ pool = <<>>
    /\ sink = NoSink
    /\ op = NoOp
    /\ trace = <<>>
    /\ line = <<>>
    /\ toks = <<>>
    /\ exited = <<>>

IdleEsc == s = <<>> /\ buf = <<>> /\ escDone = FALSE

IdleConc == lg = <<>> /\ pc = <<>> /\ mutex = <<>> /\ inWrite = {} /\ written = <<>>

---------------------------------------------------------------------------
(* Spec: the level filter, the write and the fatal exit of one logger *)

NonFatal == {DebugLevel, InfoLevel, WarnLevel, ErrorLevel}

\* "a b"
FlowMsgs == {<<97, 32, 98>>}

Init == InitLog /\ IdleEsc /\ IdleConc

Next ==
    \/ CallSetLevel("d", Levels)
    \/ LogCall("d", NonFatal, FlowMsgs, FlowEnvs)
    \/ Fatal("d", FlowMsgs, FlowEnvs)

Spec == Init /\ [][Next]_vars

---------------------------------------------------------------------------
(* Properties of Spec *)

Count(x, seq) == Cardinality({i \in 1 .. Len(seq) : seq[i] = x})

IsCall == op.name \in {"Log", "Fatal", "FieldLog"}

\* the last call passed the level filter of the logger it was made on
Passed == IsCall /\ op.lvl >= op.cfg.level

\* C2: a call at level L on a logger with threshold T writes to the sink
\* exactly once when L >= T; when L < T it calls nothing (no buffer taken
\* from the pool, no clock read, no write) and leaves the pool and the
\* sink as they were.
C2_LevelFilter ==
    [][ op' # op =>
          IF op'.lvl >= op'.cfg.level
          THEN Count("write", trace') = 1 /\ line' # <<>>
          ELSE /\ trace' = <<>>
               /\ line' = <<>>
               /\ pool' = pool
               /\ sink' = sink ]_vars

\* a call below the threshold, made after the sink has taken a line
C2_Witness ==
    /\ op.name = "Log"
    /\ op.lvl < op.cfg.level
    /\ trace = <<>>
    /\ sink # NoSink
    /\ pool # <<>>

\* C7: whatever the threshold, a Fatal call hands its line to the sink
\* exactly once, whether or not that write fails, and then exits with
\* status 1, the write coming before the exit; no other call exits.
C7_FatalExits ==
    /\ op.name = "Fatal" =>
          /\ exited = <<1>>
          /\ line # <<>>
          /\ Count("write", trace) = 1
          /\ Count("exit", trace) = 1
          /\ trace[Len(trace)] = "exit"
          /\ \E i \in 1 .. Len(trace) - 1 : trace[i] = "write"
    /\ op.name # "Fatal" => exited = <<>> /\ Count("exit", trace) = 0

\* a Fatal call on a logger whose threshold is fatal and whose write failed
C7_Witness ==
    /\ op.name = "Fatal"
    /\ op.cfg.level = FatalLevel
    /\ op.env.werr
    /\ exited = <<1>>

\* C8: when the destination's Write fails in a call that is not fatal, the
\* failure is reported once, the line is written once (no retry), the
\* buffer is reset and put back once and the call returns; with or without
\* a failure every pooled buffer is empty, so each line holds only its own
\* bytes.
C8_WriteFailure ==
    /\ (op.name = "Log" /\ Passed /\ op.env.werr) =>
          /\ trace = <<"get", "now", "write", "printf", "reset", "put">>
          /\ exited = <<>>
    /\ (op.name = "Log" /\ Passed /\ ~op.env.werr) =>
          trace = <<"get", "now", "write", "reset", "put">>
    /\ Passed => Len(pool) = 1
    /\ \A i \in 1 .. Len(pool) : pool[i] = <<>>
    /\ Passed =>
          line = AssembleLine(<<>>, op.cfg, op.msg, op.lvl, op.fields, op.order, op.env)

\* a call whose write failed, made after a call whose line the sink took
C8_Witness ==
    /\ op.name = "Log"
    /\ Passed
    /\ op.env.werr
    /\ sink # NoSink
    /\ sink.bytes # line
    /\ pool = << <<>> >>

---------------------------------------------------------------------------
(* SpecLine: the lines of a logger under every color, caller and timestamp *)
(* format setting                                                          *)

LineLevels == {InfoLevel, ErrorLevel}

NextLine ==
    \/ CallSetColorOutput("d")
    \/ CallSetCallerFrame("d")
    \/ CallSetTimestampFormat("d")
    \/ LogCall("d", LineLevels, Msgs, LineEnvs)
    \/ FieldLog("d", LineLevels, Msgs, LineEnvs)

SpecLine == Init /\ [][NextLine]_vars

HasByte(x, seq) == \E i \in 1 .. Len(seq) : seq[i] = x

\* a token in double quotes whose inner quotes are all escaped
RECURSIVE InnerEscaped(_, _)
InnerEscaped(tk, i) ==
    IF i >= Len(tk) THEN i = Len(tk)
    ELSE IF tk[i] = 92 THEN InnerEscaped(tk, i + 2)
    ELSE tk[i] # 34 /\ InnerEscaped(tk, i + 1)

IsQuoted(tk) ==
    Len(tk) >= 2 /\ tk[1] = 34 /\ tk[Len(tk)] = 34 /\ InnerEscaped(tk, 2)

\* a token that follows the escaping rule: quoted, or free of '=', ' ', '"'
SafeToken(tk) == IsQuoted(tk) \/ ~(HasByte(61, tk) \/ HasByte(32, tk) \/ HasByte(34, tk))

\* key=value; the key of the timestamp field carries its '='
FieldText(i) ==
    IF i = 1 THEN toks[i].key \o toks[i].val
    ELSE toks[i].key \o <<61>> \o toks[i].val

\* the fields from i on, one space between two fields
RECURSIVE JoinFields(_)
JoinFields(i) ==
    IF i > Len(toks) THEN <<>>
    ELSE IF i = Len(toks) THEN FieldText(i)
    ELSE FieldText(i) \o <<32>> \o JoinFields(i + 1)

IsPrefix(p, seq) == Len(p) <= Len(seq) /\ SubSeq(seq, 1, Len(p)) = p
IsSuffix(p, seq) ==
    Len(p) <= Len(seq) /\ SubSeq(seq, Len(seq) - Len(p) + 1, Len(seq)) = p

\* C4: the bytes handed to the sink in one call hold exactly one newline,
\* and it is the last byte.
C4_OneLine ==
    Passed => Count(10, line) = 1 /\ line[Len(line)] = 10

\* C5: the line is timestamp, level, message, sc, caller if and only if
\* caller capture is on, then each field of the map once, with exactly one
\* space between two fields and the newline right after the last field.
C5_FieldLayout ==
    Passed =>
       /\ Len(toks) = 4 + (IF op.cfg.enableCaller THEN 1 ELSE 0)
                        + Cardinality(DOMAIN op.fields)
       /\ \A k \in DOMAIN op.fields :
             Cardinality({i \in 1 .. Len(toks) :
                 toks[i] = [key |-> writeKey(<<>>, k, op.lvl, op.cfg.enableColor),
                            val |-> writeVal(<<>>, op.fields[k])]}) = 1
       /\ line = JoinFields(1) \o <<10>>

\* C6: every key token and every value token of the line, the timestamp
\* value included, is in quoted form when its text has '=', ' ' or '"'.
C6_TokensEscaped ==
    Passed =>
       \A i \in 1 .. Len(toks) :
          /\ SafeToken(toks[i].val)
          /\ i > 1 => SafeToken(toks[i].key)

\* C9: with coloring on, every key is written between the raw color code of
\* the level and the raw reset code and no value holds an escape byte; with
\* coloring off the line holds no escape byte (the inputs hold none).
C9_ColoredKeys ==
    Passed =>
       IF op.cfg.enableColor
       THEN \A i \in 1 .. Len(toks) :
               /\ IsPrefix(colorLvlMap(op.lvl), toks[i].key)
               /\ IsSuffix(reset, toks[i].key)
               /\ ~HasByte(27, toks[i].val)
       ELSE ~HasByte(27, line)

---------------------------------------------------------------------------
(* SpecCfg: the setters, called on the logger New returned (l) and on the  *)
(* logger a setter returned (d)                                            *)

Whos == {"l", "d"}

CfgLevels == {DebugLevel}

NextCfg ==
    \/ \E who \in Whos : CallSetLevel(who, CfgLevels)
    \/ \E who \in Whos : CallSetWriter(who)
    \/ \E who \in Whos : CallSetTimestampFormat(who)
    \/ \E who \in Whos : CallSetColorOutput(who)
    \/ \E who \in Whos : CallSetCallerFrame(who)
    \/ \E who \in Whos : CallSetScope(who)
    \/ \E who \in Whos : LogCall(who, {InfoLevel}, FlowMsgs, CfgEnvs)

SpecCfg == Init /\ [][NextCfg]_vars

\* C10: no setter changes the logger it is called on: the logger New
\* returned keeps its level, writer, timestamp format, color flag, caller
\* settings and scope, and every line emitted through it is made with them.
C10_SettersLeaveReceiver ==
    /\ l = New("nil")
    /\ (IsCall /\ op.who = "l") => op.cfg = New("nil")

---------------------------------------------------------------------------
(* SpecConc: NProcs goroutines, each with a logger over one destination,   *)
(* each emitting one line of LineLen bytes                                 *)

NProcs  == 2
LineLen == 2

Procs == 1 .. NProcs

\* The syncWriter of the logger New(dest) returned first is 0; the
\* syncWriter that goroutine p makes by New is p, the one it makes by
\* SetWriter is NProcs + p.
Writers == 0 .. 2 * NProcs

InitConc ==
    /\ lg = [p \in Procs |-> 0]
    /\ pc = [p \in Procs |-> "start"]
    /\ mutex = [w \in Writers |-> 0]
    /\ inWrite = {}
    /\ written = <<>>

\* p emits through a copy of the first logger: the copy holds the same
\* *syncWriter.
UseCopy(p) ==
    /\ pc[p] = "start"
    /\ lg' = [lg EXCEPT ![p] = 0]
    /\ pc' = [pc EXCEPT ![p] = "ready"]
    /\ UNCHANGED <<mutex, inWrite, written>>
    /\ UNCHANGED <<escVars, logVars>>

\* p emits through New(dest): newSyncWriter makes a syncWriter of its own.
UseNew(p) ==
    /\ pc[p] = "start"
    /\ lg' = [lg EXCEPT ![p] = p]
    /\ pc' = [pc EXCEPT ![p] = "ready"]
    /\ UNCHANGED <<mutex, inWrite, written>>
    /\ UNCHANGED <<escVars, logVars>>

\* p emits through l.SetWriter(dest): a syncWriter of its own, too.
UseSetWriter(p) ==
    /\ pc[p] = "start"
    /\ lg' = [lg EXCEPT ![p] = NProcs + p]
    /\ pc' = [pc EXCEPT ![p] = "ready"]
    /\ UNCHANGED <<mutex, inWrite, written>>
    /\ UNCHANGED <<escVars, logVars>>

\* syncWriter.Write: w.Lock()
Lock(p) ==
    /\ pc[p] = "ready"
    /\ mutex[lg[p]] = 0
    /\ mutex' = [mutex EXCEPT ![lg[p]] = p]
    /\ pc' = [pc EXCEPT ![p] = "locked"]
    /\ UNCHANGED <<lg, inWrite, written>>
    /\ UNCHANGED <<escVars, logVars>>

\* syncWriter.Write: w.w.Write(p) is entered
EnterWrite(p) ==
    /\ pc[p] = "locked"
    /\ inWrite' = inWrite \cup {p}
    /\ pc' = [pc EXCEPT ![p] = "writing"]
    /\ UNCHANGED <<lg, mutex, written>>
    /\ UNCHANGED <<escVars, logVars>>

\* the destination takes the next byte of p's line; after the last one
\* w.w.Write returns
WriteByte(p) ==
    /\ pc[p] = "writing"
    /\ written' = Append(written, p)
    /\ IF Cardinality({i \in 1 .. Len(written) : written[i] = p}) + 1 = LineLen
       THEN inWrite' = inWrite \ {p} /\ pc' = [pc EXCEPT ![p] = "written"]
       ELSE UNCHANGED <<inWrite, pc>>
    /\ UNCHANGED <<lg, mutex>>
    /\ UNCHANGED <<escVars, logVars>>

\* syncWriter.Write: w.Unlock()
Unlock(p) ==
    /\ pc[p] = "written"
    /\ mutex' = [mutex EXCEPT ![lg[p]] = 0]
    /\ pc' = [pc EXCEPT ![p] = "done"]
    /\ UNCHANGED <<lg, inWrite, written>>
    /\ UNCHANGED <<escVars, logVars>>

NextConc ==
    \/ \E p \in Procs : UseCopy(p)
    \/ \E p \in Procs : UseNew(p)
    \/ \E p \in Procs : UseSetWriter(p)
    \/ \E p \in Procs : Lock(p)
    \/ \E p \in Procs : EnterWrite(p)
    \/ \E p \in Procs : WriteByte(p)
    \/ \E p \in Procs : Unlock(p)

InitAllConc == InitConc /\ InitLog /\ IdleEsc

SpecConc == InitAllConc /\ [][NextConc]_vars

\* the bytes of p's line lie next to each other in what the destination took
Contiguous(p) ==
    \A i, j \in 1 .. Len(written) :
       (i < j /\ written[i] = p /\ written[j] = p) =>
          \A k \in i .. j : written[k] = p

\* C3: whichever way the loggers over one destination were made (copies of
\* one logger, separate New calls, SetWriter calls), no two emissions are
\* inside the destination's Write at once, no byte of one line lies inside
\* another, and when all have returned the destination holds every line whole.
C3_WritesSerialized ==
    /\ Cardinality(inWrite) <= 1
    /\ \A p \in Procs : Contiguous(p)
    /\ (\A p \in Procs : pc[p] = "done") => Len(written) = NProcs * LineLen

---------------------------------------------------------------------------
(* SpecEsc: escapeAndWriteString on every text of at most MaxLen bytes *)

\* '=', ' ', '"', '\\', '\n', '\r', '\t', ESC (a control byte), 'a',
\* 0xC3 (with 0xBF or 0xBD after it: U+00FF, U+00FD), 0xFF (never valid),
\* 0xEF 0xBF 0xBD (U+FFFD, validly encoded)
Alphabet == {61, 32, 34, 92, 10, 13, 9, 27, 97, 195, 255, 239, 191, 189}

Texts == UNION {[1 .. n -> Alphabet] : n \in 0 .. MaxLen}

TextGiven == s \in Texts /\ buf = <<>> /\ escDone = FALSE

EscapeAndWriteString ==
    /\ ~escDone
    /\ buf' = escapeAndWriteString(buf, s)
    /\ escDone' = TRUE
    /\ UNCHANGED s
    /\ UNCHANGED <<logVars, concVars>>

NextEsc == EscapeAndWriteString

InitEsc == TextGiven /\ InitLog /\ IdleConc

SpecEsc == InitEsc /\ [][NextEsc]_vars


\* The encoder as the specification words it, one character at a time.
\* A byte that starts no valid encoding is an invalid sequence.
InvalidAt(str, i) ==
    str[i] >= RuneSelf /\ DecodeRuneInString(str, i).size = 1

RefWidth(str, i) == IF str[i] < RuneSelf THEN 1 ELSE DecodeRuneInString(str, i).size

\* some character from position i on is '=', ' ', '"' or an invalid sequence
RECURSIVE RefTriggerFrom(_, _)
RefTriggerFrom(str, i) ==
    IF i > Len(str) THEN FALSE
    ELSE \/ str[i] = 61 \/ str[i] = 32 \/ str[i] = 34 \/ InvalidAt(str, i)
         \/ RefTriggerFrom(str, i + RefWidth(str, i))

RefMustQuote(str) == RefTriggerFrom(str, 1)

RefChar(str, i) ==
    LET c == str[i]
    IN  IF c = 92 THEN <<92, 92>>
        ELSE IF c = 34 THEN <<92, 34>>
        ELSE IF c = 10 THEN <<92, 110>>
        ELSE IF c = 13 THEN <<92, 114>>
        ELSE IF c = 9 THEN <<92, 116>>
        ELSE IF c < 32 THEN <<92, 117, 48, 48, hex[(c \div 16) + 1], hex[(c % 16) + 1]>>
        ELSE IF InvalidAt(str, i) THEN <<92, 117, 102, 102, 102, 100>>
        ELSE SubSeq(str, i, i + RefWidth(str, i) - 1)

RECURSIVE RefBody(_, _)
RefBody(str, i) ==
    IF i > Len(str) THEN <<>>
    ELSE RefChar(str, i) \o RefBody(str, i + RefWidth(str, i))

RefEncode(str) ==
    IF RefMustQuote(str) THEN <<34>> \o RefBody(str, 1) \o <<34>> ELSE str

\* C1: escapeAndWriteString appends what the reference encoder gives: the
\* text itself when it has no '=', ' ', '"' and no invalid sequence, else
\* the text in double quotes with '\\', '"', newline, CR, tab, the other
\* control bytes and the invalid sequences escaped and every other byte
\* copied.
C1_MatchesReference == escDone => buf = RefEncode(s)

===========================================================================
